---- MODULE Spec2Model ----
(***************************************************************************)
(* Model of bazaar's database access layer (src/bazaar/motor.py: Motor and *)
(* Convertor) and of its class configuration (src/bazaar/conf.py: Column   *)
(* and Persistence).                                                       *)
(*                                                                         *)
(* Python values are modelled as strings: None is the string "None", a     *)
(* primary key drawn from the database sequence is the decimal string of   *)
(* the sequence value, names (attributes, columns, relations, classes) are *)
(* themselves.                                                             *)
(***************************************************************************)
EXTENDS Integers, Sequences, FiniteSets, TLC

VARIABLES
    db_conn,    \* Motor.db_conn: None or the open connection
    seq,        \* the database sequence behind "select nextval(...)"
    objs,       \* application objects: objs[o] is o.__dict__
    last,       \* the last call made on the Motor or the Convertor, and what it did
    gen,        \* the generator object returned by the last Motor.getData call
    allocated,  \* allocated[o]: key given to o by its last successful add, until reassigned
    classes,    \* the application classes made by the metaclass Persistence
    lastc,      \* the last addColumn call and what it did
    lastv,      \* the last Convertor construction and the Convertor it built
    link_rows,  \* the rows of the link relation of a many-to-many association
    expected,   \* the pairs given to addPair and not since given to delPair
    deleted,    \* the pairs given to delPair and not since given to addPair
    lastm       \* the last getData / getObjects / getPair call and what it gave

motorVars == <<db_conn, seq, objs, last, gen, allocated>>

confVars == <<classes, lastc>>

convVars == <<lastv>>

mapVars == <<link_rows, expected, deleted, lastm>>

vars == <<db_conn, seq, objs, last, gen, allocated, classes, lastc, lastv,
          link_rows, expected, deleted, lastm>>

None == "None"

(***************************************************************************)
(* Bounds and input sets                                                   *)
(***************************************************************************)
\* The database sequence hands out the values 1..MaxKey.
MaxKey == 3

Objs == {"o1", "o2"}

\* What the DB-API driver does with one statement: it runs it, it raises, or
\* (for a select) it runs it and yields no row.
DriverOutcomes == {"ok", "fail", "norow"}

KeyStr(n) == ToString(n)

\* Keys an application may assign by hand (setattr(obj, '__key__', ...)).
HandKeys == {None, KeyStr(1)}

\* Row data handed to Motor.add directly: without and with the column no.
Rows == {[x \in {} |-> "None"], [x \in {"no"} |-> "5"]}

\* At most MaxCols descriptors are registered, over all classes.
MaxCols == 3


(***************************************************************************)
(* Python dictionaries and attribute lookup                                *)
(***************************************************************************)
EmptyDict == [x \in {} |-> None]

\* d[k] = v
DictSet(d, k, v) == [x \in (DOMAIN d) \cup {k} |-> IF x = k THEN v ELSE d[x]]

\* getattr(obj, '__key__'): the instance attribute, else the class attribute
\* that Persistence.__new__ sets to None.
KeyOf(d) == IF "__key__" \in DOMAIN d THEN d["__key__"] ELSE None

\* One statement handed to a cursor of the connection.
Stmt(kind, key, ok) == [kind |-> kind, key |-> key, ok |-> ok]

\* One call of a Motor method made by a handler, and the exception it raised.
Call(fn, err) == [fn |-> fn, err |-> err]

\* What a call did: the exception that reached the caller (None: it returned),
\* the Motor calls it made, the statements the connection received and the
\* value returned.
Outcome(err, calls, stmts, ret) ==
    [err |-> err, calls |-> calls, stmts |-> stmts, ret |-> ret]

(***************************************************************************)
(* Motor (src/bazaar/motor.py)                                             *)
(***************************************************************************)
\* Motor.getKey(query): cursor(), execute(query), fetchone()[0].
Motor_getKey(conn, sq, out) ==
    IF conn = None
    THEN Outcome("AttributeError", <<Call("getKey", "AttributeError")>>, <<>>, None)
    ELSE IF out = "fail"
    THEN Outcome("DatabaseError", <<Call("getKey", "DatabaseError")>>,
                 <<Stmt("nextval", None, FALSE)>>, None)
    ELSE IF out = "norow"
    THEN Outcome("TypeError", <<Call("getKey", "TypeError")>>,
                 <<Stmt("nextval", None, TRUE)>>, None)
    ELSE Outcome(None, <<Call("getKey", None)>>,
                 <<Stmt("nextval", None, TRUE)>>, KeyStr(sq))

\* Motor.add(query, data): cursor(), execute(query, data). The insert names its
\* parameters, %(col)s, so the driver raises when data lacks one of cols.
Motor_add(conn, cols, data, out) ==
    IF conn = None
    THEN Outcome("AttributeError", <<Call("add", "AttributeError")>>, <<>>, None)
    ELSE IF \E i \in 1..Len(cols) : cols[i] \notin DOMAIN data
    THEN Outcome("KeyError", <<Call("add", "KeyError")>>,
                 <<Stmt("insert", data["__key__"], FALSE)>>, None)
    ELSE IF out # "ok"
    THEN Outcome("DatabaseError", <<Call("add", "DatabaseError")>>,
                 <<Stmt("insert", data["__key__"], FALSE)>>, None)
    ELSE Outcome(None, <<Call("add", None)>>,
                 <<Stmt("insert", data["__key__"], TRUE)>>, None)

\* Motor.update(query, data, key): cursor(), execute(query, tuple(data) + (key, )).
Motor_update(conn, key, out) ==
    IF conn = None
    THEN Outcome("AttributeError", <<Call("update", "AttributeError")>>, <<>>, None)
    ELSE IF out # "ok"
    THEN Outcome("DatabaseError", <<Call("update", "DatabaseError")>>,
                 <<Stmt("update", key, FALSE)>>, None)
    ELSE Outcome(None, <<Call("update", None)>>, <<Stmt("update", key, TRUE)>>, None)

\* Motor.delete(query, key): cursor(), execute(query, (key, )).
Motor_delete(conn, key, out) ==
    IF conn = None
    THEN Outcome("AttributeError", <<Call("delete", "AttributeError")>>, <<>>, None)
    ELSE IF out # "ok"
    THEN Outcome("DatabaseError", <<Call("delete", "DatabaseError")>>,
                 <<Stmt("delete", key, FALSE)>>, None)
    ELSE Outcome(None, <<Call("delete", None)>>, <<Stmt("delete", key, TRUE)>>, None)

\* Motor.executeMany(query, iterator): cursor(), executemany(query, iterator).
Motor_executeMany(conn, out) ==
    IF conn = None
    THEN Outcome("AttributeError", <<Call("executeMany", "AttributeError")>>, <<>>, None)
    ELSE IF out # "ok"
    THEN Outcome("DatabaseError", <<Call("executeMany", "DatabaseError")>>,
                 <<Stmt("executemany", None, FALSE)>>, None)
    ELSE Outcome(None, <<Call("executeMany", None)>>,
                 <<Stmt("executemany", None, TRUE)>>, None)

(***************************************************************************)
(* Convertor (src/bazaar/motor.py), built for a class whose columns are    *)
(* all plain: self.columns lists them, self.oto_ascs is empty.             *)
(***************************************************************************)
\* self.columns of the Convertor the calls below are made on.
Convertor_columns == <<"no">>

\* Convertor.getData(obj): a copy of obj.__dict__; the class has no one-to-one
\* association whose foreign key would be added.
Convertor_getData(d) == [x \in DOMAIN d |-> d[x]]

\* What a Convertor call did: an Outcome, the key it drew from the sequence
\* (None: it drew none) and the object's __dict__ afterwards.
ConvOutcome(r, calls, stmts, key, d) ==
    [err |-> r.err, calls |-> calls, stmts |-> stmts, ret |-> None, key |-> key, obj |-> d]

\* Convertor.add as it would be if a failed key allocation were caught and the
\* insert issued all the same, with no key.
Convertor_add_KeyFailureSwallowed(d, conn, sq, out1, out2) ==
    LET data == Convertor_getData(d)
        k    == Motor_getKey(conn, sq, out1)
        a    == Motor_add(conn, Convertor_columns, DictSet(data, "__key__", k.ret), out2)
    IN  IF a.err # None
        THEN ConvOutcome(a, k.calls \o a.calls, k.stmts \o a.stmts, k.ret, d)
        ELSE ConvOutcome(a, k.calls \o a.calls, k.stmts \o a.stmts, k.ret,
                         DictSet(d, "__key__", k.ret))

\* Convertor.add as it would be with obj.__key__ = key placed before the insert.
Convertor_add_KeyAssignedFirst(d, conn, sq, out1, out2) ==
    LET data == Convertor_getData(d)
        k    == Motor_getKey(conn, sq, out1)
    IN  IF k.err # None
        THEN ConvOutcome(k, k.calls, k.stmts, None, d)
        ELSE LET a == Motor_add(conn, Convertor_columns, DictSet(data, "__key__", k.ret), out2)
             IN  ConvOutcome(a, k.calls \o a.calls, k.stmts \o a.stmts, k.ret,
                             DictSet(d, "__key__", k.ret))

\* Convertor.add as it would be without its last line, obj.__key__ = key.
Convertor_add_KeyNotAssigned(d, conn, sq, out1, out2) ==
    LET data == Convertor_getData(d)
        k    == Motor_getKey(conn, sq, out1)
    IN  IF k.err # None
        THEN ConvOutcome(k, k.calls, k.stmts, None, d)
        ELSE LET a == Motor_add(conn, Convertor_columns, DictSet(data, "__key__", k.ret), out2)
             IN  ConvOutcome(a, k.calls \o a.calls, k.stmts \o a.stmts, k.ret, d)

\* Convertor.add(obj), lines 169-173.
Convertor_add(d, conn, sq, out1, out2) ==
    LET data == Convertor_getData(d)
        k    == Motor_getKey(conn, sq, out1)
    IN  IF k.err # None
        THEN ConvOutcome(k, k.calls, k.stmts, None, d)
        ELSE LET a == Motor_add(conn, Convertor_columns, DictSet(data, "__key__", k.ret), out2)
             IN  IF a.err # None
                 THEN ConvOutcome(a, k.calls \o a.calls, k.stmts \o a.stmts, k.ret, d)
                 ELSE ConvOutcome(a, k.calls \o a.calls, k.stmts \o a.stmts, k.ret,
                                  DictSet(d, "__key__", k.ret))

\* Convertor.update(obj), lines 182-184: the list [data[col] for col in
\* self.columns] raises KeyError when obj lacks one of the attributes.
Convertor_update(d, conn, out) ==
    LET data == Convertor_getData(d)
    IN  IF \E i \in 1..Len(Convertor_columns) : Convertor_columns[i] \notin DOMAIN data
        THEN ConvOutcome([err |-> "KeyError"], <<>>, <<>>, None, d)
        ELSE LET u == Motor_update(conn, KeyOf(d), out)
             IN  ConvOutcome(u, u.calls, u.stmts, None, d)

\* Convertor.delete(obj), line 193.
Convertor_delete(d, conn, out) ==
    LET x == Motor_delete(conn, KeyOf(d), out)
    IN  ConvOutcome(x, x.calls, x.stmts, None, d)

(***************************************************************************)
(* State of the database access layer                                      *)
(***************************************************************************)
\* The record kept of the last call: its name, the object it was given, the
\* connection and the object's key when it was made, and what it did.
Last(op, o, r) ==
    [op |-> op, obj |-> o, conn |-> db_conn,
     key0 |-> IF o = None THEN None ELSE KeyOf(objs[o]),
     err |-> r.err, calls |-> r.calls, stmts |-> r.stmts, ret |-> r.ret]

NoCall == [op |-> None, obj |-> None, conn |-> None, key0 |-> None,
           err |-> None, calls |-> <<>>, stmts |-> <<>>, ret |-> None]

\* A generator object: not yet made, made by a call of Motor.getData and not
\* yet advanced, holding an open cursor, finished, or ended by an exception.
\* callconn is Motor.db_conn at the call that made it.
NoGen == [pc |-> "none", callconn |-> None]

\* Motor.__init__ (db_conn = None), a database whose sequence starts at 1, and
\* application objects fresh from cls().
MotorInit ==
    /\ db_conn = None
    /\ seq = 1
    /\ objs = [o \in Objs |-> EmptyDict]
    /\ last = NoCall
    /\ gen = NoGen
    /\ allocated = [o \in Objs |-> None]

\* Motor.connectDB(dsn): db_module.connect(dsn) returns a connection or raises.
connectDB(out) ==
    /\ db_conn' = IF out = "ok" THEN "conn" ELSE db_conn
    /\ last' = Last("connectDB", None,
                    Outcome(IF out = "ok" THEN None ELSE "DatabaseError", <<>>, <<>>, None))
    /\ UNCHANGED <<seq, objs, gen, allocated, confVars, convVars, mapVars>>

\* Motor.closeDBConn(): self.db_conn.close(); self.db_conn = None. The cursors
\* of a closed connection are unusable.
closeDBConn ==
    /\ db_conn' = None
    /\ last' = Last("closeDBConn", None,
                    Outcome(IF db_conn = None THEN "AttributeError" ELSE None, <<>>, <<>>, None))
    /\ gen' = IF db_conn # None /\ gen.pc = "open" THEN [gen EXCEPT !.pc = "stale"] ELSE gen
    /\ UNCHANGED <<seq, objs, allocated, confVars, convVars, mapVars>>

\* setattr(obj, a, v) by the application.
SetAttr(o, a, v) ==
    /\ objs' = [objs EXCEPT ![o] = DictSet(@, a, v)]
    /\ allocated' = IF a = "__key__" THEN [allocated EXCEPT ![o] = None] ELSE allocated
    /\ last' = Last("setattr", o, Outcome(None, <<>>, <<>>, None))
    /\ UNCHANGED <<db_conn, seq, gen, confVars, convVars, mapVars>>

\* Convertor.add(obj)
add(o, out1, out2) ==
    LET r == Convertor_add(objs[o], db_conn, seq, out1, out2)
    IN  /\ out1 = "ok" => seq <= MaxKey
        /\ objs' = [objs EXCEPT ![o] = r.obj]
        /\ seq' = IF r.key # None THEN seq + 1 ELSE seq
        /\ allocated' = IF r.err = None THEN [allocated EXCEPT ![o] = r.key] ELSE allocated
        /\ last' = [Last("Convertor.add", o, r) EXCEPT !.ret = r.key]
        /\ UNCHANGED <<db_conn, gen, confVars, convVars, mapVars>>

\* Convertor.update(obj)
update(o, out) ==
    LET r == Convertor_update(objs[o], db_conn, out)
    IN  /\ last' = Last("Convertor.update", o, r)
        /\ UNCHANGED <<db_conn, seq, objs, gen, allocated, confVars, convVars, mapVars>>

\* Convertor.delete(obj)
delete(o, out) ==
    LET r == Convertor_delete(objs[o], db_conn, out)
    IN  /\ last' = Last("Convertor.delete", o, r)
        /\ UNCHANGED <<db_conn, seq, objs, gen, allocated, confVars, convVars, mapVars>>

\* Direct calls of the Motor's query operations.
getKey(out) ==
    LET r == Motor_getKey(db_conn, seq, out)
    IN  /\ out = "ok" => seq <= MaxKey
        /\ seq' = IF r.err = None THEN seq + 1 ELSE seq
        /\ last' = Last("Motor.getKey", None, r)
        /\ UNCHANGED <<db_conn, objs, gen, allocated, confVars, convVars, mapVars>>

motorAdd(data, k, out) ==
    /\ last' = Last("Motor.add", None,
                    Motor_add(db_conn, Convertor_columns, DictSet(data, "__key__", k), out))
    /\ UNCHANGED <<db_conn, seq, objs, gen, allocated, confVars, convVars, mapVars>>

motorUpdate(k, out) ==
    /\ last' = Last("Motor.update", None, Motor_update(db_conn, k, out))
    /\ UNCHANGED <<db_conn, seq, objs, gen, allocated, confVars, convVars, mapVars>>

motorDelete(k, out) ==
    /\ last' = Last("Motor.delete", None, Motor_delete(db_conn, k, out))
    /\ UNCHANGED <<db_conn, seq, objs, gen, allocated, confVars, convVars, mapVars>>

executeMany(out) ==
    /\ last' = Last("Motor.executeMany", None, Motor_executeMany(db_conn, out))
    /\ UNCHANGED <<db_conn, seq, objs, gen, allocated, confVars, convVars, mapVars>>

\* Motor.getData(query, cols) is a generator function (it holds a yield): the
\* call runs none of its body and returns a generator object.
getData ==
    /\ gen' = [pc |-> "created", callconn |-> db_conn]
    /\ last' = Last("Motor.getData", None, Outcome(None, <<>>, <<>>, "generator"))
    /\ UNCHANGED <<db_conn, seq, objs, allocated, confVars, convVars, mapVars>>

\* next() on the generator: the body of Motor.getData runs to its next yield.
\* From the start that is cursor(), execute(query), fetchone(); afterwards
\* fetchone(). more: the cursor has a row to give.
Motor_getData_next(g, conn, out, more) ==
    IF g.pc = "created"
    THEN IF conn = None
         THEN [pc |-> "failed", r |-> Outcome("AttributeError", <<>>, <<>>, None)]
         ELSE IF out = "fail"
         THEN [pc |-> "failed",
               r |-> Outcome("DatabaseError", <<>>, <<Stmt("select", None, FALSE)>>, None)]
         ELSE IF out = "norow" \/ ~more
         THEN [pc |-> "done",
               r |-> Outcome("StopIteration", <<>>, <<Stmt("select", None, TRUE)>>, None)]
         ELSE [pc |-> "open", r |-> Outcome(None, <<>>, <<Stmt("select", None, TRUE)>>, "row")]
    ELSE IF g.pc = "stale"
    THEN [pc |-> "failed", r |-> Outcome("DatabaseError", <<>>, <<>>, None)]
    ELSE IF out = "fail"
    THEN [pc |-> "failed", r |-> Outcome("DatabaseError", <<>>, <<>>, None)]
    ELSE IF out = "norow" \/ ~more
    THEN [pc |-> "done", r |-> Outcome("StopIteration", <<>>, <<>>, None)]
    ELSE [pc |-> "open", r |-> Outcome(None, <<>>, <<>>, "row")]

next(out, more) ==
    /\ gen.pc \in {"created", "open", "stale"}
    /\ LET n == Motor_getData_next(gen, db_conn, out, more)
       IN  /\ gen' = [gen EXCEPT !.pc = n.pc]
           /\ last' = Last("next", None, n.r)
    /\ UNCHANGED <<db_conn, seq, objs, allocated, confVars, convVars, mapVars>>

(***************************************************************************)
(* Column and Persistence (src/bazaar/conf.py)                             *)
(***************************************************************************)
True == "True"

False == "False"

\* a.update(b)
DictUpdate(a, b) ==
    [x \in (DOMAIN a) \cup (DOMAIN b) |-> IF x \in DOMAIN b THEN b[x] ELSE a[x]]

\* Column.__init__(attr, col). owner stands for the identity of the Column
\* object: the class whose addColumn call (or declaration) made it.
Column(attr, col) ==
    [attr |-> attr, col |-> IF col = None THEN attr ELSE col,
     vcls |-> None, link |-> None, vcol |-> None, vattr |-> None,
     association |-> None, update |-> True, cache |-> None, owner |-> None]

is_one_to_one(c) == c.vcls # None /\ c.link = None /\ c.vcol = None

is_one_to_many(c) == c.vcls # None /\ c.link = None /\ c.vcol # None /\ c.vattr # None

is_many_to_many(c) == c.vcls # None /\ c.col # None /\ c.link # None /\ c.vcol # None

is_bidir(c) == c.vcls # None /\ c.vattr # None

is_many(c) == is_one_to_many(c) \/ is_many_to_many(c)

\* A class that has not been declared.
NoClass == [created |-> FALSE, bases |-> <<>>, columns |-> EmptyDict,
            defaults |-> EmptyDict, update |-> None]

\* for c in bases: if hasattr(c, 'defaults'): data['defaults'].update(c.defaults)
RECURSIVE MergeDefaults(_, _, _, _)
MergeDefaults(cs, bases, i, acc) ==
    IF i > Len(bases) THEN acc
    ELSE MergeDefaults(cs, bases, i + 1, DictUpdate(acc, cs[bases[i]].defaults))

\* Persistence.__new__(name, bases, data): data holds 'columns' and 'defaults'
\* only when the declaration supplies them. The class has no attribute
\* 'update' of its own yet.
Persistence_new(cs, bases, data) ==
    [created  |-> TRUE,
     bases    |-> bases,
     columns  |-> IF "columns" \in DOMAIN data THEN data["columns"] ELSE EmptyDict,
     defaults |-> MergeDefaults(cs, bases, 1,
                      IF "defaults" \in DOMAIN data THEN data["defaults"] ELSE EmptyDict),
     update   |-> None]

\* The descriptor addColumn builds, lines 389-393, 396 and 404-405.
NewColumn(name, attr, col, vcls, link, vcol, vattr) ==
    LET c == [Column(attr, col) EXCEPT !.vcls = vcls, !.link = link, !.vcol = vcol,
                                       !.vattr = vattr, !.owner = name]
    IN  [c EXCEPT !.cache = IF is_many(c) THEN "FullAssociation" ELSE None]

\* addColumn as it would be without the check of lines 410-411: a second
\* descriptor replaces the one registered under the attribute.
Persistence_addColumn_NoDuplicateCheck(cls, name, attr, col, vcls, link, vcol, vattr, upd) ==
    LET c  == NewColumn(name, attr, col, vcls, link, vcol, vattr)
        d1 == DictSet(cls.defaults, attr, None)
        d2 == IF is_one_to_one(c) /\ c.attr # c.col THEN DictSet(d1, c.col, None) ELSE d1
        pre == [cls EXCEPT !.update = upd, !.defaults = d2]
    IN  IF attr = ""
        THEN [cls |-> pre, err |-> "NameError", col |-> c]
        ELSE [cls |-> [pre EXCEPT !.columns = DictSet(@, attr, c)], err |-> None, col |-> c]

\* Persistence.addColumn(attr, col, vcls, link, vcol, vattr, update = upd) on
\* the class cls named name: the class afterwards, the exception raised (None: it
\* returned) and the descriptor built. Line 394 assigns update to the class,
\* lines 398-400 run before the checks of lines 407-411, and line 408 names
\* ColumnMappingError without its module, which raises NameError.
Persistence_addColumn(cls, name, attr, col, vcls, link, vcol, vattr, upd) ==
    LET c  == NewColumn(name, attr, col, vcls, link, vcol, vattr)
        d1 == DictSet(cls.defaults, attr, None)
        d2 == IF is_one_to_one(c) /\ c.attr # c.col THEN DictSet(d1, c.col, None) ELSE d1
        pre == [cls EXCEPT !.update = upd, !.defaults = d2]
    IN  IF attr = ""
        THEN [cls |-> pre, err |-> "NameError", col |-> c]
        ELSE IF attr \in DOMAIN cls.columns
        THEN [cls |-> pre, err |-> "ColumnMappingError", col |-> c]
        ELSE [cls |-> [pre EXCEPT !.columns = DictSet(@, attr, c)], err |-> None, col |-> c]

\* Persistence.getColumns(): the bases' columns, in the order of __bases__,
\* updated with the class's own.
RECURSIVE Persistence_getColumns(_, _)
RECURSIVE BaseColumns(_, _, _, _)
BaseColumns(cs, bases, i, acc) ==
    IF i > Len(bases) THEN acc
    ELSE BaseColumns(cs, bases, i + 1, DictUpdate(acc, Persistence_getColumns(cs, bases[i])))

\* getColumns as it would be with the class's own columns taken first and the
\* bases' columns written over them.
Persistence_getColumns_BasesWin(cs, c) ==
    DictUpdate(cs[c].columns, BaseColumns(cs, cs[c].bases, 1, EmptyDict))

Persistence_getColumns(cs, c) ==
    DictUpdate(BaseColumns(cs, cs[c].bases, 1, EmptyDict), cs[c].columns)

(***************************************************************************)
(* The application's classes: a diamond, A <- B, A <- C, (B, C) <- D, and  *)
(* a class E that shares nothing with them.                                *)
(***************************************************************************)
ClassNames == {"A", "B", "C", "D", "E"}

DeclOrder == <<"A", "B", "C", "D", "E">>

BasesOf(c) ==
    CASE c = "B" -> <<"A">>
      [] c = "C" -> <<"A">>
      [] c = "D" -> <<"B", "C">>
      [] OTHER   -> <<>>

\* The classes after declaring DeclOrder[1..n], none supplying columns.
RECURSIVE Declared(_)
Declared(n) ==
    IF n = 0 THEN [c \in ClassNames |-> NoClass]
    ELSE LET cs == Declared(n - 1)
             c  == DeclOrder[n]
         IN  [cs EXCEPT ![c] = Persistence_new(cs, BasesOf(c), EmptyDict)]

\* The number of descriptors registered in all classes.
RECURSIVE Count(_, _)
Count(cs, S) ==
    IF S = {} THEN 0
    ELSE LET c == CHOOSE x \in S : TRUE
         IN  Cardinality(DOMAIN cs[c].columns) + Count(cs, S \ {c})

NoColumnCall == [cls |-> None, attr |-> None, err |-> None, col |-> Column(None, None),
                 cols0 |-> EmptyDict, defs0 |-> EmptyDict, update |-> None,
                 update0 |-> None]

ConfInit ==
    /\ classes = Declared(Len(DeclOrder))
    /\ lastc = NoColumnCall

\* cls.addColumn(attr, col, vcls, link, vcol, vattr, update)
addColumn(c, attr, col, vcls, link, vcol, vattr, upd) ==
    LET r == Persistence_addColumn(classes[c], c, attr, col, vcls, link, vcol, vattr, upd)
    IN  /\ classes[c].created
        /\ r.err = None => Count(classes, ClassNames) < MaxCols
        /\ classes' = [classes EXCEPT ![c] = r.cls]
        /\ lastc' = [cls |-> c, attr |-> attr, err |-> r.err, col |-> r.col,
                     cols0 |-> classes[c].columns, defs0 |-> classes[c].defaults,
                     update |-> upd, update0 |-> classes[c].update]
        /\ UNCHANGED <<motorVars, convVars, mapVars>>

\* The association layer sets col.association of a descriptor that names a
\* referenced class to the association object made for that descriptor; the
\* object's col is the descriptor (read back at motor.py line 70). The object
\* is modelled by the attribute name of its col.
bindAssociation(c, attr) ==
    /\ classes[c].created
    /\ attr \in DOMAIN classes[c].columns
    /\ classes[c].columns[attr].vcls # None
    /\ classes[c].columns[attr].association = None
    /\ classes' = [classes EXCEPT ![c].columns[attr].association = attr]
    /\ UNCHANGED <<lastc, motorVars, convVars, mapVars>>

(***************************************************************************)
(* Convertor.__init__ (src/bazaar/motor.py, lines 19-98)                   *)
(***************************************************************************)
\* The permutations of a finite set, as sequences: the orders in which a
\* dictionary's values() may come.
Orders(S) ==
    {f \in [1..Cardinality(S) -> S] : \A i, j \in 1..Cardinality(S) : f[i] = f[j] => i = j}

\* [col.col for col in cols]
ColNames(cols) == [i \in 1..Len(cols) |-> cols[i].col]

IsPlain(c) == c.association = None

\* col.association.col for a descriptor of class name whose association is set.
AssociationCol(cs, name, c) == cs[name].columns[c.association]

\* The column lists of the load, insert and update statements of lines 41-53.
Queries(columns) ==
    [getObjects |-> <<"__key__">> \o columns, add |-> <<"__key__">> \o columns,
     update |-> columns]

NoConvertor == [columns |-> <<>>, queries |-> Queries(<<>>), oto_ascs |-> <<>>,
                mtm_ascs |-> <<>>, asc_cols |-> EmptyDict]

\* Convertor(cls, mtr) for the class named name, cls.columns.values() coming in
\* the order given: the exception raised (None: the object is built) and the
\* Convertor. Lines 27-36 build columns, oto_ascs and mtm_ascs; the loop of
\* lines 68-87 reads col.association.col of every many-to-many descriptor,
\* asserts its vcls and records (col.col, col.vcol) and the link relation.
Convertor_init(cs, name, order) ==
    LET cls_columns == [i \in 1..Len(order) |-> cs[name].columns[order[i]]]
        oto_ascs == SelectSeq(cls_columns, is_one_to_one)
        columns  == ColNames(SelectSeq(cls_columns, IsPlain)) \o ColNames(oto_ascs)
        mtm_ascs == SelectSeq(cls_columns, is_many_to_many)
        conv == [columns  |-> columns,
                 queries  |-> Queries(columns),
                 oto_ascs |-> [i \in 1..Len(oto_ascs) |-> oto_ascs[i].attr],
                 mtm_ascs |-> [i \in 1..Len(mtm_ascs) |-> mtm_ascs[i].attr],
                 asc_cols |-> [a \in {mtm_ascs[i].attr : i \in 1..Len(mtm_ascs)} |->
                                 [own  |-> cs[name].columns[a].col,
                                  peer |-> cs[name].columns[a].vcol,
                                  link |-> cs[name].columns[a].link]]]
    IN  IF \E i \in 1..Len(mtm_ascs) : mtm_ascs[i].association = None
        THEN [err |-> "AttributeError", conv |-> NoConvertor]
        ELSE IF \E i \in 1..Len(mtm_ascs) : AssociationCol(cs, name, mtm_ascs[i]).vcls # mtm_ascs[i].vcls
        THEN [err |-> "AssertionError", conv |-> NoConvertor]
        ELSE [err |-> None, conv |-> conv]

NoConstruction == [cls |-> None, err |-> None, conv |-> NoConvertor, n |-> 0]

ConvInit == lastv = NoConstruction

\* Convertor(cls, mtr). lastv.n alternates, so that every construction is a
\* step that changes lastv.
newConvertor(c, order) ==
    LET r == Convertor_init(classes, c, order)
    IN  /\ classes[c].created
        /\ order \in Orders(DOMAIN classes[c].columns)
        /\ lastv' = [cls |-> c, err |-> r.err, conv |-> r.conv, n |-> 1 - lastv.n]
        /\ UNCHANGED <<motorVars, confVars, mapVars>>

(***************************************************************************)
(* Specifications                                                          *)
(***************************************************************************)
\* No row mapping or pair call made yet; the link relation is empty.
NoMapping == [op |-> None, cls |-> None, conv |-> NoConvertor, obj |-> None,
              os0 |-> [o \in Objs |-> EmptyDict], err |-> None,
              data |-> EmptyDict, row |-> <<>>, made |-> EmptyDict, pairs |-> {}]

MapInit ==
    /\ link_rows = {}
    /\ expected = {}
    /\ deleted = {}
    /\ lastm = NoMapping

Init == MotorInit /\ ConfInit /\ ConvInit /\ MapInit

\* The calls an application makes on a Convertor and on the connection.
Next ==
    \/ \E out \in {"ok", "fail"} : connectDB(out)
    \/ closeDBConn
    \/ \E o \in Objs : \E v \in {"5"} : SetAttr(o, "no", v)
    \/ \E o \in Objs : \E k \in HandKeys : SetAttr(o, "__key__", k)
    \/ \E o \in Objs : \E out1 \in DriverOutcomes : \E out2 \in {"ok", "fail"} : add(o, out1, out2)
    \/ \E o \in Objs : \E out \in {"ok", "fail"} : update(o, out)
    \/ \E o \in Objs : \E out \in {"ok", "fail"} : delete(o, out)

\* A Convertor in use over a Motor.
Spec == Init /\ [][Next]_vars

\* The Motor's own operations, called directly, in any order.
MotorNext ==
    \/ \E out \in {"ok", "fail"} : connectDB(out)
    \/ closeDBConn
    \/ \E out \in DriverOutcomes : getKey(out)
    \/ \E data \in Rows : \E k \in HandKeys : \E out \in {"ok", "fail"} : motorAdd(data, k, out)
    \/ \E k \in HandKeys : \E out \in {"ok", "fail"} : motorUpdate(k, out)
    \/ \E k \in HandKeys : \E out \in {"ok", "fail"} : motorDelete(k, out)
    \/ \E out \in {"ok", "fail"} : executeMany(out)
    \/ getData
    \/ \E out \in DriverOutcomes : \E more \in BOOLEAN : next(out, more)

MotorSpec == Init /\ [][MotorNext]_vars

Attrs == {"x", "y"}

\* Plain columns added to the classes of the diamond and to the class apart:
\* under the attribute's name, or (attribute x) under another column name.
HierNext ==
    \/ \E c \in ClassNames : \E col \in {None, "k"} :
           addColumn(c, "x", col, None, None, None, None, True)
    \/ \E c \in ClassNames \ {"E"} : addColumn(c, "y", None, None, None, None, None, True)
    \/ addColumn("A", "", None, None, None, None, None, True)

HierSpec == Init /\ [][HierNext]_vars

\* Every combination of the association fields, on one class.
ColumnNext ==
    \E col \in {None, "k"} : \E vcls \in {None, "A"} :
    \E link \in {None, "l"} : \E vcol \in {None, "v"} : \E vattr \in {None, "w"} :
        addColumn("E", "x", col, vcls, link, vcol, vattr, True)

ColumnSpec == Init /\ [][ColumnNext]_vars

\* Two partner classes: A declares its side of a many-to-many association
\* with E over the link relation l, columns (a, e); E declares a side that
\* mirrors it or differs in the link relation or in its own column.
ConvNext ==
    \/ \E vattr \in {None, "x"} : addColumn("A", "x", "a", "E", "l", "e", vattr, True)
    \/ \E col \in {"e", "a"} : \E link \in {"l", "m"} :
           addColumn("E", "x", col, "A", link, "a", "x", True)
    \/ \E c \in {"A", "E"} : bindAssociation(c, "x")
    \/ \E c \in {"A", "E"} : \E order \in Orders(DOMAIN classes[c].columns) : newConvertor(c, order)

ConvSpec == Init /\ [][ConvNext]_vars

(***************************************************************************)
(* Claims about Convertor.add / update / delete and the Motor              *)
(***************************************************************************)
IsAdd == last.op = "Convertor.add"

NoInsert == \A i \in 1..Len(last.stmts) : last.stmts[i].kind # "insert"

\* The add's key-allocation call (always its first Motor call) raised.
KeyAllocationFailed == IsAdd /\ last.calls[1].fn = "getKey" /\ last.calls[1].err # None

\* The add drew a key and its insert raised.
InsertFailed ==
    /\ IsAdd
    /\ Len(last.calls) = 2
    /\ last.calls[1] = Call("getKey", None)
    /\ last.calls[2].fn = "add"
    /\ last.calls[2].err # None

\* C1: when the key-allocation call of Convertor.add(obj) fails, the connection
\* receives no insert for that add, the call's exception is the one the caller
\* gets, and obj's key is what it was before the call.
C1_NoInsertOnKeyFailure ==
    KeyAllocationFailed =>
        /\ NoInsert
        /\ Len(last.calls) = 1
        /\ last.err = last.calls[1].err
        /\ KeyOf(objs[last.obj]) = last.key0

\* C1 witness: the sequence query raised on an open connection, for an object
\* that has no key.
C1_Witness ==
    /\ KeyAllocationFailed
    /\ last.conn # None
    /\ last.stmts = <<Stmt("nextval", None, FALSE)>>
    /\ last.key0 = None

\* C2: when Convertor.add(obj) drew a key and the insert failed, obj's key is
\* what it was before the call and the insert's exception reaches the caller.
C2_NoKeyOnInsertFailure ==
    InsertFailed =>
        /\ KeyOf(objs[last.obj]) = last.key0
        /\ last.err = last.calls[2].err
        /\ last.err # None

\* C2 witness: a key was drawn from the sequence, the insert carrying it
\* raised, and the object had no key.
C2_Witness ==
    /\ InsertFailed
    /\ last.ret # None
    /\ last.stmts = <<Stmt("nextval", None, TRUE), Stmt("insert", last.ret, FALSE)>>
    /\ last.key0 = None

\* C3: a Convertor.add(obj) that returns made one getKey call and then one
\* insert, the insert carries the key drawn and obj.__key__ is that key; and
\* while the key is not reassigned every statement a later update(obj) or
\* delete(obj) issues has that key as its key parameter, and such a call issues
\* exactly one statement when it reaches the connection.
C3_KeyTargeted ==
    /\ (IsAdd /\ last.err = None) =>
           /\ last.calls = <<Call("getKey", None), Call("add", None)>>
           /\ last.ret # None
           /\ last.stmts = <<Stmt("nextval", None, TRUE), Stmt("insert", last.ret, TRUE)>>
           /\ KeyOf(objs[last.obj]) = last.ret
           /\ allocated[last.obj] = last.ret
    /\ (last.op \in {"Convertor.update", "Convertor.delete"} /\ allocated[last.obj] # None) =>
           /\ \A i \in 1..Len(last.stmts) : last.stmts[i].key = allocated[last.obj]
           /\ last.calls # <<>> /\ last.conn # None => Len(last.stmts) = 1

\* C3 witness: an update that the database ran for an object whose key came
\* from an add, the sequence having been drawn from more than once.
C3_Witness ==
    /\ last.op = "Convertor.update"
    /\ allocated[last.obj] = KeyStr(2)
    /\ last.stmts = <<Stmt("update", KeyStr(2), TRUE)>>

\* C4: Convertor.update(obj) on an object whose key is unset fails: the caller
\* gets an exception and no update statement completes.
C4_UpdateUnsetKeyFails ==
    (last.op = "Convertor.update" /\ last.key0 = None) =>
        /\ last.err # None
        /\ \A i \in 1..Len(last.stmts) : ~(last.stmts[i].kind = "update" /\ last.stmts[i].ok)

QueryOps == {"Motor.getData", "Motor.add", "Motor.update", "Motor.delete",
             "Motor.executeMany", "Motor.getKey"}

\* C5: a query operation called while the Motor has no connection raises at the
\* call and hands no statement to any connection, then or later.
C5_NoConnectionFails ==
    /\ (last.op \in QueryOps /\ last.conn = None) => (last.err # None /\ last.stmts = <<>>)
    /\ gen.callconn = None => gen.pc \notin {"open", "done", "stale"}

(***************************************************************************)
(* Claims about Persistence.addColumn and getColumns                       *)
(***************************************************************************)
\* The last call was an addColumn with a non-empty attribute name.
ColumnCall == lastc.cls # None /\ lastc.attr # ""

\* C6: addColumn with an attribute name already among the class's own columns
\* raises ColumnMappingError and leaves the class's columns, the registered
\* descriptor among them, as they were; with a name the class's own columns do
\* not hold, whatever the other classes hold, it returns and the class's
\* columns hold the new descriptor under that name.
C6_DuplicateRejected ==
    /\ (ColumnCall /\ lastc.attr \in DOMAIN lastc.cols0) =>
           /\ lastc.err = "ColumnMappingError"
           /\ classes[lastc.cls].columns = lastc.cols0
    /\ (ColumnCall /\ lastc.attr \notin DOMAIN lastc.cols0) =>
           /\ lastc.err = None
           /\ classes[lastc.cls].columns = DictSet(lastc.cols0, lastc.attr, lastc.col)

\* C6 witness: attribute x is registered on the class E and on the unrelated
\* class A, and a second addColumn of x on A, with another column name, failed.
C6_Witness ==
    /\ lastc.cls = "A" /\ lastc.attr = "x"
    /\ lastc.err = "ColumnMappingError"
    /\ "x" \in DOMAIN classes["E"].columns
    /\ lastc.col.col # classes["A"].columns["x"].col

\* The classes c derives from, and c.
RECURSIVE Lineage(_)
Lineage(c) == {c} \cup UNION {Lineage(BasesOf(c)[i]) : i \in 1..Len(BasesOf(c))}

\* C7: for every class of the diamond, getColumns() is a mapping whose names are
\* exactly the names declared by the class and its ancestors, a name the class
\* declares maps to the class's own descriptor, and any other name maps to a
\* descriptor an ancestor declares under it.
C7_DiamondUnion ==
    \A c \in ClassNames :
        LET g == Persistence_getColumns(classes, c)
        IN  /\ DOMAIN g = UNION {DOMAIN classes[a].columns : a \in Lineage(c)}
            /\ \A n \in DOMAIN classes[c].columns :
                   g[n] = classes[c].columns[n] /\ g[n].owner = c
            /\ \A n \in (DOMAIN g) \ (DOMAIN classes[c].columns) :
                   \E a \in Lineage(c) \ {c} :
                       n \in DOMAIN classes[a].columns /\ g[n] = classes[a].columns[n]

\* C7 witness: D, reached from A through B and through C, declares x, which A
\* declares too, and inherits y, which B or C declares; getColumns() of D
\* holds D's own x and that y.
C7_Witness ==
    LET g == Persistence_getColumns(classes, "D")
    IN  /\ "x" \in DOMAIN classes["D"].columns
        /\ "x" \in DOMAIN classes["A"].columns
        /\ "y" \notin DOMAIN classes["D"].columns
        /\ DOMAIN g = {"x", "y"}
        /\ g["x"].owner = "D"
        /\ g["y"].owner \in {"B", "C"}

\* The classifications a descriptor falls under.
Classifications(c) ==
    {k \in {"none", "one-to-one", "one-to-many", "many-to-many"} :
        \/ k = "none" /\ c.vcls = None
        \/ k = "one-to-one" /\ is_one_to_one(c)
        \/ k = "one-to-many" /\ is_one_to_many(c)
        \/ k = "many-to-many" /\ is_many_to_many(c)}

\* C8: every descriptor that addColumn has registered falls under exactly one
\* of none, one-to-one, one-to-many, many-to-many.
C8_ExactlyOneClassification ==
    \A c \in ClassNames : \A n \in DOMAIN classes[c].columns :
        Cardinality(Classifications(classes[c].columns[n])) = 1

\* C9: addColumn with vcls unset and link, vcol or vattr set raises and
\* registers nothing.
C9_UnsetVclsRejected ==
    (/\ ColumnCall
     /\ lastc.col.vcls = None
     /\ (lastc.col.link # None \/ lastc.col.vcol # None \/ lastc.col.vattr # None)) =>
        /\ lastc.err # None
        /\ classes[lastc.cls].columns = lastc.cols0

(***************************************************************************)
(* Claim about Convertor.__init__                                          *)
(***************************************************************************)
\* The class named name has a bi-directional many-to-many descriptor whose
\* partner descriptor, vattr of vcls, exists and does not have the same link
\* relation with the columns reversed.
Mismatched(cs, name) ==
    \E n \in DOMAIN cs[name].columns :
        LET d == cs[name].columns[n]
        IN  /\ is_many_to_many(d) /\ is_bidir(d)
            /\ d.vattr \in DOMAIN Persistence_getColumns(cs, d.vcls)
            /\ LET p == Persistence_getColumns(cs, d.vcls)[d.vattr]
               IN  ~(p.link = d.link /\ p.col = d.vcol /\ p.vcol = d.col)

\* C10: every construction of a Convertor for a class with a mismatched
\* bi-directional many-to-many descriptor raises and builds no Convertor.
C10_MismatchRejected ==
    [][(lastv' # lastv /\ Mismatched(classes', lastv'.cls)) =>
           (lastv'.err # None /\ lastv'.conv = NoConvertor)]_vars

(***************************************************************************)
(* Convertor.getData and the row assignment of Convertor.getObjects        *)
(* (src/bazaar/motor.py, lines 101-132)                                    *)
(***************************************************************************)
\* The values an application gives to attributes.
ValueOf(a) == IF a = "x" THEN "5" ELSE IF a = "y" THEN "7" ELSE "9"

\* The one-to-one descriptors a Convertor holds, read from its class.
OtoOf(cs, name, conv) ==
    [i \in 1..Len(conv.oto_ascs) |-> cs[name].columns[conv.oto_ascs[i]]]

\* Lines 126-131: for every one-to-one descriptor, value = getattr(obj,
\* col.attr); data[col.col] is None when value is None, else value.__key__.
\* os gives the __dict__ of every object a value may refer to.
RECURSIVE FlattenOto(_, _, _, _, _)
FlattenOto(data, oto, i, d, os) ==
    IF i > Len(oto) THEN data
    ELSE LET value == d[oto[i].attr]
         IN  FlattenOto(DictSet(data, oto[i].col,
                                IF value = None THEN None ELSE KeyOf(os[value])),
                        oto, i + 1, d, os)

\* getattr(obj, attr) raises for an attribute the object lacks, and
\* value.__key__ raises for a value that is neither None nor an object.
NoKeyToRead(d, attr, os) ==
    \/ attr \notin DOMAIN d
    \/ d[attr] # None /\ d[attr] \notin DOMAIN os

\* getData as it would be with the value stored under the column unchanged.
Convertor_getData_cols_NoFlattening(d, oto, os) ==
    LET Put[i \in 0..Len(oto)] ==
            IF i = 0 THEN Convertor_getData(d)
            ELSE DictSet(Put[i - 1], oto[i].col, d[oto[i].attr])
    IN  IF \E i \in 1..Len(oto) : NoKeyToRead(d, oto[i].attr, os)
        THEN [err |-> "AttributeError", data |-> EmptyDict]
        ELSE [err |-> None, data |-> Put[Len(oto)]]

\* Convertor.getData(obj) of a Convertor with the one-to-one descriptors oto:
\* the copy of obj.__dict__ of line 121, keyed by attribute names, then the
\* one-to-one columns.
Convertor_getData_cols(d, oto, os) ==
    IF \E i \in 1..Len(oto) : NoKeyToRead(d, oto[i].attr, os)
    THEN [err |-> "AttributeError", data |-> EmptyDict]
    ELSE [err |-> None, data |-> FlattenOto(Convertor_getData(d), oto, 1, d, os)]

\* [data[col] for col in self.columns] (line 184; the named placeholders of
\* the insert statement, line 47, look the same names up): KeyError when data
\* has no entry under a column name.
RowOf(data, columns) ==
    IF \E i \in 1..Len(columns) : columns[i] \notin DOMAIN data
    THEN [err |-> "KeyError", row |-> <<>>]
    ELSE [err |-> None, row |-> [i \in 1..Len(columns) |-> data[columns[i]]]]

\* Lines 105-110: cols = ['__key__'] + self.columns; obj = self.cls(); for
\* every position of the row, setattr(obj, cols[i], data[i]).
RECURSIVE SetAttrs(_, _, _, _)
SetAttrs(made, cols, row, i) ==
    IF i > Len(cols) THEN made
    ELSE SetAttrs(DictSet(made, cols[i], row[i]), cols, row, i + 1)

Convertor_getObjects_row(columns, row) ==
    SetAttrs(EmptyDict, <<"__key__">> \o columns, row, 1)

\* Convertor.getData(obj) on the Convertor built last. os0 keeps the objects
\* as they are at the call.
getDataOf(o) ==
    LET oto == OtoOf(classes, lastv.cls, lastv.conv)
        g   == Convertor_getData_cols(objs[o], oto, objs)
    IN  /\ lastv.cls # None /\ lastv.err = None
        /\ lastm' = [NoMapping EXCEPT !.op = "getData", !.cls = lastv.cls,
                                      !.conv = lastv.conv, !.obj = o, !.os0 = objs,
                                      !.err = g.err, !.data = g.data]
        /\ UNCHANGED <<motorVars, confVars, convVars, link_rows, expected, deleted>>

\* The row of an object as the update statement takes it from getData, handed
\* back as a row of the load statement, "__key__" first, to the assignment of
\* getObjects.
roundTrip(o) ==
    LET conv == lastv.conv
        g    == Convertor_getData_cols(objs[o], OtoOf(classes, lastv.cls, conv), objs)
        r    == IF g.err # None THEN [err |-> g.err, row |-> <<>>]
                ELSE RowOf(g.data, conv.columns)
        row  == <<KeyOf(objs[o])>> \o r.row
    IN  /\ lastv.cls # None /\ lastv.err = None
        /\ lastm' = [NoMapping EXCEPT
                        !.op = "roundTrip", !.cls = lastv.cls, !.conv = conv,
                        !.obj = o, !.os0 = objs, !.err = r.err, !.data = g.data,
                        !.row = IF r.err = None THEN row ELSE <<>>,
                        !.made = IF r.err = None
                                 THEN Convertor_getObjects_row(conv.columns, row)
                                 ELSE EmptyDict]
        /\ UNCHANGED <<motorVars, confVars, convVars, link_rows, expected, deleted>>

\* A class E with a plain attribute x kept under the column x or k and a plain
\* attribute y; object o1 of E.
RoundNext ==
    \/ \E col \in {None, "k"} : addColumn("E", "x", col, None, None, None, None, True)
    \/ addColumn("E", "y", None, None, None, None, None, True)
    \/ \E order \in Orders(DOMAIN classes["E"].columns) : newConvertor("E", order)
    \/ \E a \in {"x", "y"} : SetAttr("o1", a, ValueOf(a))
    \/ roundTrip("o1")

\* Objects of a class of plain columns turned into rows and rows into objects.
RoundSpec == Init /\ [][RoundNext]_vars

\* A class E with an attribute x, one-to-one to class A, kept under the column
\* x or k; object o1 of E, object o2 of A.
OtoNext ==
    \/ \E col \in {None, "k"} : addColumn("E", "x", col, "A", None, None, None, True)
    \/ bindAssociation("E", "x")
    \/ \E order \in Orders(DOMAIN classes["E"].columns) : newConvertor("E", order)
    \/ \E v \in {None, "o2"} : SetAttr("o1", "x", v)
    \/ SetAttr("o2", "__key__", KeyStr(1))
    \/ getDataOf("o1")

\* Objects with a one-to-one reference turned into rows.
OtoSpec == Init /\ [][OtoNext]_vars

\* The Convertor of the call recorded in m is what Convertor(cls, mtr) builds
\* from the class as it is now.
ConvCurrent(cs, m) ==
    /\ m.cls # None
    /\ \E order \in Orders(DOMAIN cs[m.cls].columns) :
           Convertor_init(cs, m.cls, order) = [err |-> None, conv |-> m.conv]

\* Every descriptor of the class is plain.
OnlyPlain(cls) == \A a \in DOMAIN cls.columns : cls.columns[a].vcls = None

\* C11: an object of a class with only plain columns, with every mapped
\* attribute set, goes through getData, the row in column order and the row
\* assignment of getObjects to an instance with the same value under every
\* mapped attribute.
C11_RoundTrip ==
    (/\ lastm.op = "roundTrip"
     /\ ConvCurrent(classes, lastm)
     /\ OnlyPlain(classes[lastm.cls])
     /\ DOMAIN classes[lastm.cls].columns \subseteq DOMAIN lastm.os0[lastm.obj]) =>
        /\ lastm.err = None
        /\ \A a \in DOMAIN classes[lastm.cls].columns :
               /\ a \in DOMAIN lastm.made
               /\ lastm.made[a] = lastm.os0[lastm.obj][a]

\* C12: getData maps the column of every one-to-one descriptor to the key of
\* the object the attribute refers to, to None when the attribute is None,
\* and never to the object.
C12_OneToOneFlattened ==
    (lastm.op = "getData" /\ lastm.err = None /\ ConvCurrent(classes, lastm)) =>
        \A a \in DOMAIN classes[lastm.cls].columns :
            LET c     == classes[lastm.cls].columns[a]
                value == lastm.os0[lastm.obj][a]
            IN  is_one_to_one(c) =>
                    /\ c.col \in DOMAIN lastm.data
                    /\ lastm.data[c.col] =
                           IF value = None THEN None ELSE KeyOf(lastm.os0[value])
                    /\ value # None => lastm.data[c.col] # value

\* getData has flattened a set reference kept under a column named unlike the
\* attribute.
C12_Witness ==
    /\ lastm.op = "getData" /\ lastm.err = None /\ ConvCurrent(classes, lastm)
    /\ "x" \in DOMAIN classes["E"].columns
    /\ is_one_to_one(classes["E"].columns["x"])
    /\ classes["E"].columns["x"].col = "k"
    /\ lastm.os0["o1"]["x"] = "o2"
    /\ lastm.data["k"] = KeyStr(1)

(***************************************************************************)
(* Convertor.addPair, delPair and getPair (src/bazaar/motor.py, lines      *)
(* 67-87 and 135-160)                                                      *)
(***************************************************************************)
\* The keys of the objects on the two sides of the association.
OwnKeys == {KeyStr(1), KeyStr(2)}

PeerKeys == {KeyStr(1), KeyStr(3)}

\* What an application hands to addPair and delPair: one or two pairs, each
\* (own key, peer key).
PairBatches == {b \in SUBSET (OwnKeys \X PeerKeys) : Cardinality(b) \in {1, 2}}

\* A row of the relation rel: the value p[i] under the column cols[i].
LinkRow(rel, cols, p) ==
    [rel |-> rel, vals |-> DictSet(DictSet(EmptyDict, cols[1], p[1]), cols[2], p[2])]

\* The row has the value p[i] in the column cols[i], for every i.
RowMatches(r, rel, cols, p) ==
    r.rel = rel /\ \A i \in 1..Len(cols) : r.vals[cols[i]] = p[i]

\* The three statements of lines 78-87 for the association asc of the
\* Convertor: the link relation and the column list of each statement.
PairQueries(conv, asc) ==
    LET c == <<conv.asc_cols[asc].own, conv.asc_cols[asc].peer>>
    IN  [relation |-> conv.asc_cols[asc].link, addPair |-> c, delPair |-> c, getPair |-> c]

\* delPair as it would be with a statement that names the first column only.
Convertor_delPair_FirstColumnOnly(rows, conv, asc, pairs) ==
    LET q == PairQueries(conv, asc)
    IN  {r \in rows : ~ \E p \in pairs : RowMatches(r, q.relation, <<q.delPair[1]>>, p)}

\* insert into "relation" (cols) values(%s, %s), executed for every pair.
Convertor_addPair(rows, conv, asc, pairs) ==
    LET q == PairQueries(conv, asc)
    IN  rows \cup {LinkRow(q.relation, q.addPair, p) : p \in pairs}

\* delete from "relation" where "col" = %s and "vcol" = %s, executed for every
\* pair.
Convertor_delPair(rows, conv, asc, pairs) ==
    LET q == PairQueries(conv, asc)
    IN  {r \in rows : ~ \E p \in pairs : RowMatches(r, q.relation, q.delPair, p)}

\* select "col", "vcol" from "relation"; every row gives (data[0], data[1]).
Convertor_getPair(rows, conv, asc) ==
    LET q == PairQueries(conv, asc)
    IN  {<<r.vals[q.getPair[1]], r.vals[q.getPair[2]]>> : r \in {x \in rows : x.rel = q.relation}}

\* The Convertor built last knows the association asc.
HasAssociation(asc) ==
    lastv.cls # None /\ lastv.err = None /\ asc \in DOMAIN lastv.conv.asc_cols

PairCall(op, asc, err) ==
    [NoMapping EXCEPT !.op = op, !.cls = lastv.cls, !.conv = lastv.conv, !.obj = asc,
                      !.err = err]

\* Convertor.addPair(asc, pairs). The application adds no pair that the
\* relation holds: its primary key is the two columns.
addPair(asc, pairs, out) ==
    LET r == Motor_executeMany(db_conn, out)
    IN  /\ HasAssociation(asc)
        /\ pairs \cap expected = {}
        /\ link_rows' = IF r.err = None
                        THEN Convertor_addPair(link_rows, lastv.conv, asc, pairs)
                        ELSE link_rows
        /\ expected' = IF r.err = None THEN expected \cup pairs ELSE expected
        /\ deleted' = IF r.err = None THEN deleted \ pairs ELSE deleted
        /\ lastm' = PairCall("addPair", asc, r.err)
        /\ UNCHANGED <<motorVars, confVars, convVars>>

\* Convertor.delPair(asc, pairs)
delPair(asc, pairs, out) ==
    LET r == Motor_executeMany(db_conn, out)
    IN  /\ HasAssociation(asc)
        /\ link_rows' = IF r.err = None
                        THEN Convertor_delPair(link_rows, lastv.conv, asc, pairs)
                        ELSE link_rows
        /\ expected' = IF r.err = None THEN expected \ pairs ELSE expected
        /\ deleted' = IF r.err = None THEN deleted \cup pairs ELSE deleted
        /\ lastm' = PairCall("delPair", asc, r.err)
        /\ UNCHANGED <<motorVars, confVars, convVars>>

\* Convertor.getPair(asc), iterated to its end: the generator of Motor.getData
\* opens a cursor, executes the select and gives every row.
getPair(asc, out) ==
    LET err == IF db_conn = None THEN "AttributeError"
               ELSE IF out # "ok" THEN "DatabaseError" ELSE None
    IN  /\ HasAssociation(asc)
        /\ lastm' = [PairCall("getPair", asc, err) EXCEPT
                        !.pairs = IF err = None
                                  THEN Convertor_getPair(link_rows, lastv.conv, asc)
                                  ELSE {}]
        /\ UNCHANGED <<motorVars, confVars, convVars, link_rows, expected, deleted>>

\* A class A with a many-to-many attribute x to class E over the link
\* relation l, columns a and e.
PairNext ==
    \/ addColumn("A", "x", "a", "E", "l", "e", None, True)
    \/ bindAssociation("A", "x")
    \/ \E order \in Orders(DOMAIN classes["A"].columns) : newConvertor("A", order)
    \/ \E out \in {"ok", "fail"} : connectDB(out)
    \/ \E b \in PairBatches : \E out \in {"ok", "fail"} : addPair("x", b, out)
    \/ \E b \in PairBatches : \E out \in {"ok", "fail"} : delPair("x", b, out)
    \/ \E out \in {"ok", "fail"} : getPair("x", out)

\* The link relation of a many-to-many association kept through a Convertor.
PairSpec == Init /\ [][PairNext]_vars

\* C13: getPair gives exactly the pairs added and not deleted since, each as
\* (own key, peer key).
C13_PairsAsAddedAndNotDeleted ==
    (lastm.op = "getPair" /\ lastm.err = None) => lastm.pairs = expected

\* getPair has read a relation from which one pair of several was deleted.
C13_Witness ==
    /\ lastm.op = "getPair" /\ lastm.err = None
    /\ lastm.pairs = {<<KeyStr(1), KeyStr(3)>>, <<KeyStr(2), KeyStr(1)>>}
    /\ deleted = {<<KeyStr(1), KeyStr(1)>>}
    /\ \E r \in link_rows : r.vals["a"] = KeyStr(1) /\ r.vals["e"] = KeyStr(3)
    /\ ~ \E r \in link_rows : r.vals["a"] = KeyStr(1) /\ r.vals["e"] = KeyStr(1)

(***************************************************************************)
(* Claims about the column list of a Convertor                             *)
(***************************************************************************)
\* A class A with an attribute x of any kind, kept under the column x or k,
\* and a class B derived from A with a plain attribute y.
CompileNext ==
    \/ \E col \in {None, "k"} : \E vcls \in {None, "E"} : \E link \in {None, "l"} :
       \E vcol \in {None, "v"} :
           addColumn("A", "x", col, vcls, link, vcol, IF vcol = None THEN None ELSE "w", True)
    \/ addColumn("B", "y", None, None, None, None, None, True)
    \/ bindAssociation("A", "x")
    \/ \E c \in {"A", "B"} : \E order \in Orders(DOMAIN classes[c].columns) :
           newConvertor(c, order)

\* Convertors built for a class and for a class derived from it.
CompileSpec == Init /\ [][CompileNext]_vars

\* The elements of a sequence.
Range(q) == {q[i] : i \in 1..Len(q)}

\* The column names of the descriptors named by the attributes in S, in the
\* orders the descriptors may come.
ColumnLists(cols, S) ==
    {[i \in 1..Len(o) |-> cols[o[i]].col] : o \in Orders(S)}

\* C14: the column list of a Convertor is the columns of the plain descriptors
\* of the class followed by those of its one-to-one descriptors, each once,
\* and the load, insert and update statements list exactly these columns.
C14_ColumnList ==
    (lastv.err = None /\ ConvCurrent(classes, lastv)) =>
        LET cols  == classes[lastv.cls].columns
            plain == {a \in DOMAIN cols : cols[a].vcls = None}
            oto   == {a \in DOMAIN cols : is_one_to_one(cols[a])}
        IN  /\ \E p \in ColumnLists(cols, plain) : \E o \in ColumnLists(cols, oto) :
                   lastv.conv.columns = p \o o
            /\ lastv.conv.queries = Queries(lastv.conv.columns)

\* C15: the column list of the Convertor of a class with a base holds the
\* column of every plain and one-to-one descriptor of getColumns(), the
\* inherited ones included.
C15_InheritedColumnsCovered ==
    (/\ lastv.err = None /\ ConvCurrent(classes, lastv)
     /\ classes[lastv.cls].bases # <<>>) =>
        LET cols == Persistence_getColumns(classes, lastv.cls)
        IN  \A a \in DOMAIN cols :
                (cols[a].vcls = None \/ is_one_to_one(cols[a])) =>
                    cols[a].col \in Range(lastv.conv.columns)

(***************************************************************************)
(* Claims about what addColumn stores and what a failing call leaves       *)
(***************************************************************************)
\* Plain and one-to-many attributes x and y added to one class, with the
\* update argument true and false.
UpdateNext ==
    \E attr \in Attrs : \E vcls \in {None, "A"} : \E upd \in {True, False} :
        addColumn("E", attr, None, vcls,
                  None, IF vcls = None THEN None ELSE "v",
                  IF vcls = None THEN None ELSE "w", upd)

UpdateSpec == Init /\ [][UpdateNext]_vars

\* C16: a successful addColumn(attr, ..., update=u) leaves u in the update
\* field of the descriptor it registers, and changes neither the update field
\* of another descriptor nor other state of the class.
C16_UpdateOnDescriptor ==
    (lastc.cls # None /\ lastc.err = None) =>
        /\ classes[lastc.cls].columns[lastc.attr].update = lastc.update
        /\ \A a \in DOMAIN lastc.cols0 :
               classes[lastc.cls].columns[a].update = lastc.cols0[a].update
        /\ classes[lastc.cls].update = lastc.update0

\* C17: an addColumn call that raises leaves the columns and the defaults of
\* the class as they were before the call.
C17_FailedCallChangesNothing ==
    (lastc.cls # None /\ lastc.err # None) =>
        /\ classes[lastc.cls].columns = lastc.cols0
        /\ classes[lastc.cls].defaults = lastc.defs0

(***************************************************************************)
(* Class creation (src/bazaar/conf.py, lines 318-367) and the defaults     *)
(***************************************************************************)
\* What a declaration may supply: nothing, or a columns mapping with a plain
\* descriptor for the attribute x.
DeclData(c) ==
    {EmptyDict,
     DictSet(EmptyDict, "columns",
             DictSet(EmptyDict, "x", [Column("x", None) EXCEPT !.owner = c]))}

\* No class declared yet.
DeclInit ==
    /\ MotorInit /\ ConvInit /\ MapInit
    /\ classes = Declared(0)
    /\ lastc = NoColumnCall

\* Persistence(name, bases, data): the class is created once, after its bases.
NewClass(c, data) ==
    /\ ~classes[c].created
    /\ \A i \in 1..Len(BasesOf(c)) : classes[BasesOf(c)[i]].created
    /\ classes' = [classes EXCEPT ![c] = Persistence_new(classes, BasesOf(c), data)]
    /\ UNCHANGED <<lastc, motorVars, convVars, mapVars>>

\* Class A and class B derived from it, declared with or without a columns
\* mapping, and attributes added to either: plain ones, and x one-to-one to
\* class E under the column k.
DeclNext ==
    \/ \E c \in {"A", "B"} : \E data \in DeclData(c) : NewClass(c, data)
    \/ \E c \in {"A", "B"} : \E attr \in Attrs :
           addColumn(c, attr, None, None, None, None, None, True)
    \/ \E c \in {"A", "B"} : addColumn(c, "x", "k", "E", None, None, None, True)

DeclSpec == DeclInit /\ [][DeclNext]_vars

\* C18: in every class, every attribute of getColumns() has an entry in the
\* defaults, and so has the column of every one-to-one descriptor kept under
\* a column named unlike the attribute.
C18_DefaultsCoverColumns ==
    \A c \in ClassNames :
        classes[c].created =>
            LET cols == Persistence_getColumns(classes, c)
            IN  \A a \in DOMAIN cols :
                    /\ a \in DOMAIN classes[c].defaults
                    /\ (is_one_to_one(cols[a]) /\ cols[a].col # a) =>
                           cols[a].col \in DOMAIN classes[c].defaults

====
